---- MODULE Spec2Model ----
(***************************************************************************)
(* Model of pkg/patch: Apply(target, patch) walks the keys of a decoded    *)
(* JSON object and overwrites the matching fields of a struct, recursing   *)
(* into nested structs, pointers to structs and slices.                    *)
(*                                                                         *)
(* Go values are modelled by value.  A pointer is a sequence of length 0   *)
(* (nil) or 1 (the pointee); a slice is a sequence; a struct is a function *)
(* from Go field names to values.  Pointees are owned by the field that    *)
(* holds them (no two fields alias one record).  A float64 is kept as its  *)
(* number of halves (1.5 is 3), so float64 -> int conversion truncates.    *)
(* A panic raised inside reflect or structs is carried as an error value   *)
(* of kind "panic": the call does not return.                              *)
(***************************************************************************)
EXTENDS Integers, Sequences, FiniteSets, TLC

VARIABLES target, pre, patch, changed, err, visited, at, calls

vars == <<target, pre, patch, changed, err, visited, at, calls>>

\* Bounds of the model.
MaxKeys == 2
MaxLen == 2
MaxCalls == 2

-----------------------------------------------------------------------------
\* Static types (reflect.Type) of the destination.
TString == [kind |-> "string"]
TInt == [kind |-> "int"]
TStruct(n) == [kind |-> "struct", name |-> n]
TPtr(t) == [kind |-> "ptr", elem |-> t]
TSlice(t) == [kind |-> "slice", elem |-> t]

\* Dynamic values (interface{}) as encoding/json decodes them.
Null == [k |-> "nil", v |-> 0]
DBool(b) == [k |-> "bool", v |-> b]
DNum(halves) == [k |-> "float64", v |-> halves]
DStr(s) == [k |-> "string", v |-> s]
DMap(m) == [k |-> "map", v |-> m]
DSeq(s) == [k |-> "slice", v |-> s]

\* error values; a panic unwinds the call instead of returning.
NoErr == [kind |-> "nil", msg |-> "", name |-> ""]
Errorf(msg, name) == [kind |-> "error", msg |-> msg, name |-> name]
Panic(msg) == [kind |-> "panic", msg |-> msg, name |-> ""]
errNotSettable == Errorf("field is not settable", "")

\* The struct types patched: the fields of the test types put together in
\* one Target (a tagged string and int, an unexported field without tag, a
\* pointer to TargetPerson, a slice of int), with a TargetPerson held by
\* value and slices of TargetPerson and *TargetPerson for the struct and
\* slice-of-struct branches of Apply.  TargetPerson holds no pointer.
\* A json tag is kept as its comma-separated parts.
PersonFields ==
  << [name |-> "FirstName", tag |-> <<"first_name">>, exported |-> TRUE, type |-> TString],
     [name |-> "LastName", tag |-> <<"last_name">>, exported |-> TRUE, type |-> TString] >>

TargetFields ==
  << [name |-> "Name", tag |-> <<"name", "omitempty">>, exported |-> TRUE, type |-> TString],
     [name |-> "Salary", tag |-> <<"salary">>, exported |-> TRUE, type |-> TInt],
     [name |-> "unexported", tag |-> <<>>, exported |-> FALSE, type |-> TString],
     [name |-> "Contact", tag |-> <<"contact">>, exported |-> TRUE,
      type |-> TPtr(TStruct("TargetPerson"))],
     [name |-> "Home", tag |-> <<"home">>, exported |-> TRUE,
      type |-> TStruct("TargetPerson")],
     [name |-> "LaserColors", tag |-> <<"laser_colors">>, exported |-> TRUE,
      type |-> TSlice(TInt)],
     [name |-> "Crew", tag |-> <<"crew">>, exported |-> TRUE,
      type |-> TSlice(TPtr(TStruct("TargetPerson")))],
     [name |-> "Staff", tag |-> <<"staff">>, exported |-> TRUE,
      type |-> TSlice(TStruct("TargetPerson"))] >>

Fields(structName) ==
  IF structName = "Target" THEN TargetFields ELSE PersonFields

TTarget == TStruct("Target")

FieldNames(structName) ==
  {Fields(structName)[i].name : i \in 1..Len(Fields(structName))}

\* The static type of the field with the given Go name.
FieldType(structName, n) ==
  Fields(structName)[CHOOSE i \in 1..Len(Fields(structName)) :
                       Fields(structName)[i].name = n].type

-----------------------------------------------------------------------------
\* reflect.Zero / reflect.New: the zero value of a type.
RECURSIVE ZeroValue(_)
ZeroValue(T) ==
  CASE T.kind = "string" -> ""
    [] T.kind = "int" -> 0
    [] T.kind = "bool" -> FALSE
    [] T.kind = "ptr" -> <<>>
    [] T.kind = "slice" -> <<>>
    [] T.kind = "struct" ->
         [n \in FieldNames(T.name) |-> ZeroValue(FieldType(T.name, n))]

\* strings.Cut(tag, ","): the part of the tag before the first comma.
Cut(tag) == tag[1]

\* The name findField compares with the key: the json tag up to its first
\* comma, or the field's own name when it declares no tag.
TagName(f) == IF f.tag = <<>> THEN f.name ELSE Cut(f.tag)

\* Faulty variant: the IsExported check is left out.
findFieldAnyVisibility(T, name) ==
  LET fs == Fields(T.name)
      hits == {i \in 1..Len(fs) : TagName(fs[i]) = name}
  IN IF hits = {} THEN 0 ELSE CHOOSE i \in hits : \A j \in hits : i <= j

\* findField: index of the first field whose tag name is the key and that is
\* exported; 0 when there is none.
findField(T, name) ==
  LET fs == Fields(T.name)
      hits == {i \in 1..Len(fs) : TagName(fs[i]) = name /\ fs[i].exported}
  IN IF hits = {} THEN 0 ELSE CHOOSE i \in hits : \A j \in hits : i <= j

\* Faulty variant: the nil check of the pointer is left out.
IsZeroAlways(T, val) == TRUE

\* Field.IsZero for a pointer field: reflect.DeepEqual(current, zero).
IsZero(T, val) == val = ZeroValue(T)

\* reflect.DeepEqual(value, dstValue): false whenever the dynamic type of the
\* patch value is not the static type of the field.
DeepEqual(d, T, val) ==
  \/ d.k = "string" /\ T.kind = "string" /\ d.v = val
  \/ d.k = "bool" /\ T.kind = "bool" /\ d.v = val
  \/ d.k = "float64" /\ T.kind = "float64" /\ d.v = val

\* reflect.Value.Len panics unless the value is a string, a map or a slice.
HasLen(d) == d.k \in {"string", "map", "slice"}

\* reflect.Value.CanConvert for a valid (non-nil) value decoded from JSON.
CanConvert(d, T) ==
  \/ d.k = "string" /\ T.kind = "string"
  \/ d.k = "float64" /\ T.kind \in {"int", "float64"}
  \/ d.k = "bool" /\ T.kind = "bool"

\* Faulty variant: the value is stored as it came, not converted.
ConvertNothing(d, T) == d.v

\* reflect.Value.Convert: float64 -> int truncates toward zero.
Convert(d, T) ==
  IF d.k = "float64" /\ T.kind = "int"
  THEN (IF d.v >= 0 THEN d.v \div 2 ELSE -((-d.v) \div 2))
  ELSE d.v

\* Faulty variant: the nested flag overwrites the flag instead of joining it.
OverwriteChanged(c, iChanged) == iChanged

\* changed = changed || iChanged
OrChanged(c, iChanged) == c \/ iChanged

\* reflect.MakeSlice(type, n, n): n zero elements.
MakeSlice(T, n) == [j \in 1..n |-> ZeroValue(T.elem)]

\* Faulty variant: the assignment is left out.
SetFieldDropped(rec, name, val) == rec

\* f.value.Set(given): the field takes the value.
SetField(rec, name, val) == [rec EXCEPT ![name] = val]

\* reflect.Value.Set panics unless the value is assignable to the slot: a
\* *t2 made by reflect.New(t2) goes into a slot of type *t2 only.
AssignableNew(t2, slotT) ==
  /\ slotT.kind = "ptr"
  /\ slotT.elem.kind = t2.kind
  /\ slotT.elem = t2

-----------------------------------------------------------------------------
\* One activation of Apply: the struct it patches, the named results and
\* (for the properties) the keys whose iteration completed and the key the
\* call stopped at.
NewCall(rec) ==
  [rec |-> rec, changed |-> FALSE, err |-> NoErr, visited |-> {}, at |-> ""]

Continue(st, key) == [st EXCEPT !.visited = @ \cup {key}]
Return(st, e, key) == [st EXCEPT !.err = e, !.at = key]

\* range over a Go map visits the keys in any order.  det picks one fixed
\* order, used as the reference run of the order-independence properties.
Range(keys, det) == IF det THEN {CHOOSE k \in keys : TRUE} ELSE keys

RECURSIVE ApplySet(_, _, _, _, _)
RECURSIVE ApplyLoop(_, _, _, _, _, _)
RECURSIVE SliceLoop(_, _, _, _, _, _, _)

\* The loop over the elements of the patch array: the set of
\* [arr, err] it can end with.  dstElemType is the loop's variable of that
\* name, which the struct case overwrites with the pointee type.
SliceLoop(i, elems, slotT, dstElemType, casted, name, det) ==
  IF i > Len(elems) THEN {[arr |-> casted, err |-> NoErr]}
  ELSE
    LET e == elems[i] IN
    IF e.k = "map" THEN
      LET t2 == IF dstElemType.kind = "ptr" THEN dstElemType.elem ELSE dstElemType
      IN UNION {
           IF o.err # NoErr THEN {[arr |-> casted, err |-> o.err]}
           ELSE IF ~AssignableNew(t2, slotT)
             THEN {[arr |-> casted, err |-> Panic("reflect.Set: value is not assignable")]}
           ELSE SliceLoop(i + 1, elems, slotT, t2,
                          [casted EXCEPT ![i] = <<o.rec>>], name, det)
           : o \in ApplySet(ZeroValue(t2), t2, TRUE, e.v, det) }
    ELSE IF e.k = "nil"
      THEN {[arr |-> casted, err |-> Panic("reflect: call of reflect.Value.Type on zero Value")]}
    ELSE IF ~CanConvert(e, dstElemType)
      THEN {[arr |-> casted, err |-> Errorf("can't convert to dst type", name)]}
    ELSE SliceLoop(i + 1, elems, slotT, dstElemType,
                   [casted EXCEPT ![i] = Convert(e, dstElemType)], name, det)

\* The body of the loop over the patch, for one key: the set of states of
\* the activation after it.  settable says whether the struct patched is
\* addressable (reached through a pointer) or a copy.
ApplyKey(st, T, settable, key, value, det) ==
  LET i == findField(T, key) IN
  IF i = 0 THEN {Continue(st, key)}
  ELSE
    LET f == Fields(T.name)[i]
        dstKind == f.type.kind
        dstValue == st.rec[f.name]
        isSrcValueAStruct == value.k = "map"
        changed1 == st.changed \/ ~DeepEqual(value, f.type, dstValue)
        st1 == [st EXCEPT !.changed = changed1]
    IN
    IF dstKind = "ptr" /\ IsZero(f.type, dstValue) /\ isSrcValueAStruct THEN
      \* nil pointer: patch a new zero struct, then set the pointer
      { IF o.err # NoErr THEN Return(st, o.err, key)
        ELSE IF ~settable THEN Return(st, errNotSettable, key)
        ELSE Continue([st EXCEPT !.rec = SetField(st.rec, f.name, <<o.rec>>),
                                 !.changed = OrChanged(st.changed, o.changed)], key)
        : o \in ApplySet(ZeroValue(f.type.elem), f.type.elem, TRUE, value.v, det) }
    ELSE IF isSrcValueAStruct /\ dstKind = "struct" THEN
      \* struct held by value: Apply gets dstField.Value(), a copy
      { IF o.err # NoErr THEN Return(st, o.err, key)
        ELSE Continue([st EXCEPT !.changed = OrChanged(st.changed, o.changed)], key)
        : o \in ApplySet(dstValue, f.type, FALSE, value.v, det) }
    ELSE IF isSrcValueAStruct /\ dstKind = "ptr" /\ f.type.elem.kind = "struct" THEN
      \* pointer to an existing struct: patched in place, also when it fails
      { LET here == [st EXCEPT !.rec = [st.rec EXCEPT ![f.name] = <<o.rec>>]]
        IN IF o.err # NoErr THEN Return(here, o.err, key)
           ELSE Continue([here EXCEPT !.changed = OrChanged(st.changed, o.changed)], key)
        : o \in ApplySet(dstValue[1], f.type.elem, TRUE, value.v, det) }
    ELSE IF dstKind = "slice" THEN
      IF ~HasLen(value)
        THEN {Return(st1, Panic("reflect: call of reflect.Value.Len on non-slice"), key)}
      ELSE IF value.k # "slice"
        THEN {Return(st1, Errorf("is not an array", key), key)}
      ELSE
        { IF r.err # NoErr THEN Return(st1, r.err, key)
          ELSE IF ~settable THEN Return(st1, errNotSettable, key)
          ELSE Continue([st1 EXCEPT !.rec = SetField(st.rec, f.name, r.arr)], key)
          : r \in SliceLoop(1, value.v, f.type.elem, f.type.elem,
                            MakeSlice(f.type, Len(value.v)), key, det) }
    ELSE
      \* other values.  The "is not a struct" error set for a struct field
      \* and a non-map value is overwritten here.
      IF value.k = "nil"
        THEN {Return(st1, Panic("reflect: call of reflect.Value.Type on zero Value"), key)}
      ELSE IF ~CanConvert(value, f.type)
        THEN {Return(st1, Errorf("can't convert to dst type", key), key)}
      ELSE IF ~settable THEN {Return(st1, errNotSettable, key)}
      ELSE {Continue([st1 EXCEPT !.rec = SetField(st.rec, f.name, Convert(value, f.type))],
                     key)}

\* The for loop: any key not yet visited comes next; an error ends the call.
ApplyLoop(st, T, settable, m, keys, det) ==
  IF keys = {} THEN {st}
  ELSE UNION { UNION { IF s.err = NoErr
                         THEN ApplyLoop(s, T, settable, m, keys \ {k}, det)
                         ELSE {s}
                       : s \in ApplyKey(st, T, settable, k, m[k], det) }
               : k \in Range(keys, det) }

\* Apply(target, patch): the set of ways the call can end.  structs.New
\* panics when the target is not a struct (or a pointer to one).
ApplySet(rec, T, settable, m, det) ==
  IF T.kind # "struct"
    THEN {Return(NewCall(rec), Panic("not struct"), "")}
    ELSE ApplyLoop(NewCall(rec), T, settable, m, DOMAIN m, det)

-----------------------------------------------------------------------------
\* Inputs.  The records the target starts with.
Anakin == [FirstName |-> "Anakin", LastName |-> "Skywalker"]
Han == [FirstName |-> "Han", LastName |-> "Solo"]

NewTarget(contact, colors) ==
  [Name |-> "Anakin", Salary |-> 2, unexported |-> "private",
   Contact |-> contact, Home |-> Han, LaserColors |-> colors,
   Crew |-> << <<Anakin>> >>, Staff |-> <<Han>>]

Targets ==
  {NewTarget(<<>>, <<>>), NewTarget(<<Anakin>>, <<9>>),
   NewTarget(<<>>, <<9, 8, 7>>), NewTarget(<<Anakin>>, <<9, 8, 7>>)}

\* Nested patches for a TargetPerson.
EmptyMap == [x \in {} |-> Null]
MEmpty == DMap(EmptyMap)
MFirst == DMap([first_name |-> DStr("Darth")])
MZero == DMap([first_name |-> DStr("")])
MLast == DMap([last_name |-> DStr("Vader"), nick |-> DStr("Sith")])
MBad == DMap([first_name |-> DStr("Darth"), last_name |-> DNum(3)])
MNick == DMap([nick |-> DStr("Sith")])

SeqsUpTo(S, n) == UNION {[1..m -> S] : m \in 0..n}

Keys ==
  {"name", "salary", "unexported", "middle_name", "contact", "home",
   "laser_colors", "crew", "staff"}

\* The values a patch may give each key.
ValuesFor(key) ==
  CASE key = "name" -> {DStr("Anakin"), DStr("Darth"), DNum(3), Null}
    [] key = "salary" -> {DNum(4), DNum(7), DStr("euros"), DBool(TRUE)}
    [] key = "unexported" -> {DStr("leutenant")}
    [] key = "middle_name" -> {DStr("Sheev")}
    [] key = "contact" -> {MEmpty, MFirst, MZero, MLast, MBad, DStr("Darth")}
    [] key = "home" -> {MNick, MFirst, DStr("Darth")}
    [] key = "laser_colors" ->
         {Null, DBool(TRUE), DNum(2), DStr("red"), MFirst,
          DSeq(<<Null>>), DSeq(<<MFirst>>), DSeq(<<DStr("x")>>),
          DSeq(<<DNum(5), DStr("x")>>), DSeq(<<DNum(5), DNum(2)>>)}
         \cup {DSeq(s) : s \in SeqsUpTo({DNum(5)}, MaxLen)}
    [] key = "crew" ->
         {DSeq(<<MBad>>), DSeq(<<MFirst, DStr("x")>>), DSeq(<<MFirst, MLast>>)}
         \cup {DSeq(s) : s \in SeqsUpTo({MFirst}, MaxLen)}
    [] key = "staff" -> {DSeq(s) : s \in SeqsUpTo({MFirst}, MaxLen)}

RECURSIVE PatchesOver(_)
PatchesOver(K) ==
  IF K = {} THEN {EmptyMap}
  ELSE LET k == CHOOSE x \in K : TRUE
       IN {(k :> val) @@ p : p \in PatchesOver(K \ {k}), val \in ValuesFor(k)}

Patches ==
  UNION {PatchesOver(K) : K \in {S \in SUBSET Keys : Cardinality(S) <= MaxKeys}}

-----------------------------------------------------------------------------
Init ==
  /\ target \in Targets
  /\ pre = target
  /\ patch = EmptyMap
  /\ changed = FALSE
  /\ err = NoErr
  /\ visited = {}
  /\ at = ""
  /\ calls = 0

\* A call Apply(&target, p).  The first call takes any patch; a later call
\* applies the same patch again.  After a panic the program is gone.
Apply(p) ==
  /\ err.kind # "panic"
  /\ calls < MaxCalls
  /\ \E o \in ApplySet(target, TTarget, TRUE, p, FALSE) :
       /\ target' = o.rec
       /\ changed' = o.changed
       /\ err' = o.err
       /\ visited' = o.visited
       /\ at' = o.at
  /\ pre' = target
  /\ patch' = p
  /\ calls' = calls + 1

Next == \E p \in (IF calls = 0 THEN Patches ELSE {patch}) : Apply(p)

Spec == Init /\ [][Next]_vars

-----------------------------------------------------------------------------
\* Properties.  What they say of the types is written out here, not taken
\* from the operators above.

\* The key of each exported field of Target and of TargetPerson.
KeyField ==
  [name |-> "Name", salary |-> "Salary", contact |-> "Contact", home |-> "Home",
   laser_colors |-> "LaserColors", crew |-> "Crew", staff |-> "Staff"]

PersonKeyField == [first_name |-> "FirstName", last_name |-> "LastName"]

Called == calls > 0

\* The last call got to the key: it completed its iteration or stopped in it.
Reached(k) == k \in visited \/ at = k

\* A nested patch all of whose values convert (both fields are strings).
ConvertibleMap(m) ==
  \A g \in DOMAIN m \cap DOMAIN PersonKeyField : m[g].k = "string"

\* The record a nested patch makes of a zero TargetPerson.
ExpectedPerson(m) ==
  [FirstName |-> IF "first_name" \in DOMAIN m THEN m["first_name"].v ELSE "",
   LastName |-> IF "last_name" \in DOMAIN m THEN m["last_name"].v ELSE ""]

\* C1: whatever the call returned, every exported field whose key is not in
\* the patch holds its pre-call value, and so does every sub-field that a
\* nested patch of a non-nil Contact does not name.
C1_SparseFrame ==
  Called =>
    /\ \A k \in DOMAIN KeyField :
         k \notin DOMAIN patch => target[KeyField[k]] = pre[KeyField[k]]
    /\ ("contact" \in DOMAIN patch /\ patch["contact"].k = "map" /\ pre.Contact # <<>>) =>
         /\ target.Contact # <<>>
         /\ \A g \in DOMAIN PersonKeyField :
              g \notin DOMAIN patch["contact"].v =>
                target.Contact[1][PersonKeyField[g]] = pre.Contact[1][PersonKeyField[g]]

\* C1 witness: a call that patched the existing Contact in place and then
\* failed on another key; LastName and Name, not named, are as before.
C1_Witness ==
  /\ calls = 1
  /\ DOMAIN patch = {"contact", "salary"}
  /\ patch["contact"] = MFirst
  /\ pre.Contact = <<Anakin>>
  /\ target.Contact = <<[FirstName |-> "Darth", LastName |-> "Skywalker"]>>
  /\ err.kind = "error"
  /\ target.Name = "Anakin"

\* C2: a key that resolves to no exported field is ignored.  The unexported
\* field never changes; a patch of such keys only returns changed = false,
\* no error and leaves the target as it was; and any call ends as a call
\* with the same patch without those keys can end.
C2_UnresolvedKeysIgnored ==
  Called =>
    /\ target.unexported = pre.unexported
    /\ (\A k \in DOMAIN patch : k \notin DOMAIN KeyField) =>
         (err = NoErr /\ ~changed /\ target = pre)
    /\ (\E k \in DOMAIN patch : k \notin DOMAIN KeyField) =>
         LET known == [k \in DOMAIN patch \cap DOMAIN KeyField |-> patch[k]]
         IN \E o \in ApplySet(pre, TTarget, TRUE, known, FALSE) :
              o.rec = target /\ o.changed = changed /\ o.err = err

\* C2 witness: the patch names the unexported field and an unknown field.
C2_Witness ==
  /\ calls = 1
  /\ DOMAIN patch = {"unexported", "middle_name"}
  /\ target = pre
  /\ ~changed
  /\ err = NoErr

\* The run of the last call that visits the keys in the fixed order.
Reference == CHOOSE o \in ApplySet(pre, TTarget, TRUE, patch, TRUE) : TRUE

\* The errors (and panics) the iteration of key k alone can end with.
FailuresOf(k) ==
  {o.err : o \in ApplyKey(NewCall(pre), TTarget, TRUE, k, patch[k], FALSE)} \ {NoErr}

FailingKeys == {k \in DOMAIN patch : FailuresOf(k) # {}}

\* A value that the type of the key's field cannot take.
IncompatibleValue(k, val) ==
  CASE k = "name" -> val.k # "string"
    [] k = "salary" -> val.k # "float64"
    [] k \in {"contact", "home"} -> val.k # "map" \/ ~ConvertibleMap(val.v)
    [] k = "laser_colors" ->
         val.k # "slice" \/ \E i \in 1..Len(val.v) : val.v[i].k # "float64"
    [] k \in {"crew", "staff"} ->
         \/ val.k # "slice"
         \/ \E i \in 1..Len(val.v) : val.v[i].k # "map" \/ ~ConvertibleMap(val.v[i].v)
    [] OTHER -> FALSE

IncompatibleKeys == {k \in DOMAIN patch : IncompatibleValue(k, patch[k])}

\* C5 (as amended): a call that returns a nil error ends with the field
\* values and the changed flag of the reference order; and when at most one
\* key fails (in one way), every order ends with that key's error.
C5_OrderIndependentOnSuccess ==
  Called =>
    /\ err = NoErr => (target = Reference.rec /\ changed = Reference.changed)
    /\ (Cardinality(FailingKeys) <= 1 /\ \A k \in FailingKeys : Cardinality(FailuresOf(k)) = 1)
         => err = Reference.err

\* C5 witness: a successful call over two keys, both patched.
C5_Witness ==
  /\ calls = 1
  /\ err = NoErr
  /\ DOMAIN patch = {"name", "salary"}
  /\ target.Name = "Darth" /\ pre.Name = "Anakin"
  /\ target.Salary = 3 /\ pre.Salary = 2
  /\ changed

\* C5 (as claimed): with at most one key of incompatible value, the field
\* values, the changed flag and the error are those of the reference order.
\* Stated for the patches in which a key fails exactly when its value is
\* incompatible, and then by returning an error.
C5_OrderIndependent ==
  ( /\ Called
    /\ Cardinality(IncompatibleKeys) <= 1
    /\ FailingKeys = IncompatibleKeys
    /\ \A k \in FailingKeys : \A e \in FailuresOf(k) : e.kind = "error" )
  => (target = Reference.rec /\ changed = Reference.changed /\ err = Reference.err)

\* The flag a nested patch of a zero TargetPerson returns.
NestedFlag(m) == \E g \in DOMAIN m \cap DOMAIN PersonKeyField : m[g].v # ""

AllNumbers(s) == \A i \in 1..Len(s) : s[i].k = "float64"

\* C8: LaserColors patched with n numbers: the key does not fail, and the
\* field has exactly n elements, element i the truncated patch element i,
\* whatever its length was.
C8_SequenceReplaced ==
  ( /\ Called
    /\ "laser_colors" \in DOMAIN patch
    /\ patch["laser_colors"].k = "slice"
    /\ AllNumbers(patch["laser_colors"].v)
    /\ Reached("laser_colors") )
  => /\ at # "laser_colors"
     /\ Len(target.LaserColors) = Len(patch["laser_colors"].v)
     /\ \A i \in 1..Len(patch["laser_colors"].v) :
          target.LaserColors[i] = patch["laser_colors"].v[i].v \div 2

\* C8 witness: three colours replaced by two; 2.5 and 1.0 become 2 and 1.
C8_Witness ==
  /\ calls = 1
  /\ pre.LaserColors = <<9, 8, 7>>
  /\ DOMAIN patch = {"laser_colors"}
  /\ patch["laser_colors"] = DSeq(<<DNum(5), DNum(2)>>)
  /\ target.LaserColors = <<2, 1>>
  /\ err = NoErr

\* A value the scalar or sequence field of the key cannot convert.
NotConvertible(k, val) ==
  CASE k = "name" -> val.k # "string"
    [] k = "salary" -> val.k # "float64"
    [] k = "laser_colors" -> val.k = "slice" /\ ~AllNumbers(val.v)

\* C3: a call that gets to a scalar or sequence key whose value (or one of
\* whose elements) does not convert returns an error naming the key, and the
\* field holds its pre-call value.
C3_ConversionFailureLeavesField ==
  Called =>
    \A k \in DOMAIN patch \cap {"name", "salary", "laser_colors"} :
      (Reached(k) /\ NotConvertible(k, patch[k])) =>
        /\ err.kind = "error"
        /\ err.name = k
        /\ target[KeyField[k]] = pre[KeyField[k]]

\* C4: a call that returns without error has changed = true exactly when
\* some field of the target differs from its pre-call value.
C4_ChangeFlagExact ==
  (Called /\ err = NoErr) => (changed <=> target # pre)

\* C6: a call that gets to laser_colors with a value that is not a sequence
\* returns an error naming the key and leaves LaserColors as it was.
C6_NotASequenceIsAnError ==
  ( /\ Called
    /\ "laser_colors" \in DOMAIN patch
    /\ patch["laser_colors"].k # "slice"
    /\ Reached("laser_colors") )
  => /\ err.kind = "error"
     /\ err.name = "laser_colors"
     /\ target.LaserColors = pre.LaserColors

\* C9: a call that gets to home (a record by value) or to a non-nil contact
\* with a mapping of convertible values does not fail there, and the
\* sub-fields named hold the patch values in the target's own record.
C9_NestedMergeInPlace ==
  Called =>
    \A k \in DOMAIN patch \cap {"home", "contact"} :
      ( /\ patch[k].k = "map"
        /\ ConvertibleMap(patch[k].v)
        /\ k = "contact" => pre.Contact # <<>>
        /\ Reached(k) )
      => /\ at # k
         /\ LET now == IF k = "home" THEN target.Home ELSE target.Contact[1]
            IN \A g \in DOMAIN patch[k].v \cap DOMAIN PersonKeyField :
                 now[PersonKeyField[g]] = patch[k].v[g].v

AllConvertibleMaps(s) ==
  \A i \in 1..Len(s) : s[i].k = "map" /\ ConvertibleMap(s[i].v)

\* C10: a call that gets to crew ([]*TargetPerson) or staff ([]TargetPerson)
\* with a sequence of mappings of convertible values returns, does not fail
\* there, and every position holds the record its mapping makes of a zero one.
C10_SequenceOfRecords ==
  Called =>
    \A k \in DOMAIN patch \cap {"crew", "staff"} :
      ( /\ patch[k].k = "slice"
        /\ AllConvertibleMaps(patch[k].v)
        /\ Reached(k) )
      => /\ err.kind # "panic"
         /\ at # k
         /\ Len(target[KeyField[k]]) = Len(patch[k].v)
         /\ \A i \in 1..Len(patch[k].v) :
              (IF k = "crew" THEN target.Crew[i][1] ELSE target.Staff[i])
                = ExpectedPerson(patch[k].v[i].v)

====
